---- MODULE Spec2Model ----
(***************************************************************************)
(* Model of isshub_sync.connection: Connection, Callable (the path         *)
(* accumulator) and Executable (the request plan).                         *)
(*                                                                         *)
(* Python strings are sequences of one-character strings, so that split,   *)
(* join, upper, lower, startswith and endswith are computed, not assumed.  *)
(* Python values are tagged records (see PyStr, PyInt, PyNone, ...).       *)
(***************************************************************************)
EXTENDS Integers, Sequences, FiniteSets, TLC

VARIABLES
    conn,      \* the Connection the caller holds: NoConnection or its fields
    heap,      \* the Callable and Executable objects created so far
    last,      \* the last operation and what it returned or raised
    inflight,  \* transport calls awaiting their response
    hist,      \* history: for each object of heap, the raw arguments of its chain
    instances  \* history: how many times DEFAULT_CLIENT_CLASS() was called

vars == <<conn, heap, last, inflight, hist, instances>>

-----------------------------------------------------------------------------
(* Bounds of the model.                                                    *)

\* longest tail (after the scheme candidate) of a root given to Connection()
MaxRootTail == 4
\* number of Callable / Executable objects the caller keeps
MaxObjs == 2
\* number of requests awaiting the transport at the same time
MaxInflight == 2
\* number of calls of DEFAULT_CLIENT_CLASS() that are followed
MaxInstances == 2

-----------------------------------------------------------------------------
(* Python str operations.                                                  *)

LowerAlpha == <<"a","b","c","d","e","f","g","h","i","j","k","l","m",
                "n","o","p","q","r","s","t","u","v","w","x","y","z">>
UpperAlpha == <<"A","B","C","D","E","F","G","H","I","J","K","L","M",
                "N","O","P","Q","R","S","T","U","V","W","X","Y","Z">>
Digits == <<"0","1","2","3","4","5","6","7","8","9">>

Range(f) == {f[i] : i \in DOMAIN f}

UpperChar(c) ==
    IF \E i \in DOMAIN LowerAlpha : LowerAlpha[i] = c
    THEN UpperAlpha[CHOOSE i \in DOMAIN LowerAlpha : LowerAlpha[i] = c]
    ELSE c

LowerChar(c) ==
    IF \E i \in DOMAIN UpperAlpha : UpperAlpha[i] = c
    THEN LowerAlpha[CHOOSE i \in DOMAIN UpperAlpha : UpperAlpha[i] = c]
    ELSE c

\* str.upper() and str.lower()
Upper(s) == [i \in DOMAIN s |-> UpperChar(s[i])]
Lower(s) == [i \in DOMAIN s |-> LowerChar(s[i])]

\* s[:n] and s[n:] with Python's 0-based n
Take(s, n) == SubSeq(s, 1, IF n < Len(s) THEN n ELSE Len(s))
Drop(s, n) == SubSeq(s, n + 1, Len(s))

\* str.startswith and str.endswith
StartsWith(s, p) == Len(p) <= Len(s) /\ SubSeq(s, 1, Len(p)) = p
EndsWith(s, p) == Len(p) <= Len(s) /\ SubSeq(s, Len(s) - Len(p) + 1, Len(s)) = p

\* str.find(c) for a one-character c: Python's 0-based index, -1 when absent
Find(s, c) ==
    IF \E i \in DOMAIN s : s[i] = c
    THEN (CHOOSE i \in DOMAIN s : s[i] = c /\ \A j \in 1..(i - 1) : s[j] # c) - 1
    ELSE -1

\* str.rfind(c)
RFind(s, c) ==
    IF \E i \in DOMAIN s : s[i] = c
    THEN (CHOOSE i \in DOMAIN s : s[i] = c /\ \A j \in (i + 1)..Len(s) : s[j] # c) - 1
    ELSE -1

\* s.find(c, start)
FindFrom(s, c, start) ==
    IF Find(Drop(s, start), c) = -1 THEN -1 ELSE start + Find(Drop(s, start), c)

\* str.split(c): always at least one piece
RECURSIVE Split(_, _)
Split(s, c) ==
    IF Find(s, c) = -1
    THEN <<s>>
    ELSE <<Take(s, Find(s, c))>> \o Split(Drop(s, Find(s, c) + 1), c)

\* sep.join(parts)
RECURSIVE Join(_, _)
Join(parts, sep) ==
    IF parts = <<>> THEN <<>>
    ELSE IF Len(parts) = 1 THEN parts[1]
    ELSE parts[1] \o sep \o Join(Tail(parts), sep)

\* sum(list_of_lists, [])
RECURSIVE Sum(_)
Sum(lists) == IF lists = <<>> THEN <<>> ELSE lists[1] \o Sum(Tail(lists))

-----------------------------------------------------------------------------
(* Python values.                                                          *)

PyNone == [t |-> "None"]
PyStr(s) == [t |-> "str", v |-> s]
PyInt(n) == [t |-> "int", v |-> n]
PyDict(items) == [t |-> "dict", v |-> items]
PyEnum(name) == [t |-> "DataModes", v |-> name]

\* decimal digits of a natural number
RECURSIVE NatToStr(_)
NatToStr(n) ==
    IF n < 10 THEN <<Digits[n + 1]>>
    ELSE NatToStr(n \div 10) \o <<Digits[(n % 10) + 1]>>

\* str(value)
Str(x) ==
    CASE x.t = "str" -> x.v
      [] x.t = "int" -> IF x.v < 0 THEN <<"-">> \o NatToStr(-x.v) ELSE NatToStr(x.v)
      [] x.t = "None" -> <<"N","o","n","e">>
      [] OTHER -> <<"?">>

\* bool(value)
Truthy(x) ==
    CASE x.t = "None" -> FALSE
      [] x.t = "str" -> x.v # <<>>
      [] x.t = "int" -> x.v # 0
      [] x.t = "dict" -> x.v # <<>>
      [] OTHER -> TRUE

-----------------------------------------------------------------------------
(* urllib.parse.urlparse and urlunparse, as Connection._validate_root      *)
(* uses them.                                                              *)

SchemeChars == Range(LowerAlpha) \cup Range(UpperAlpha) \cup Range(Digits)
                 \cup {"+", "-", "."}

\* the scheme candidate: the text before the first ":" when it is a scheme
HasScheme(url) ==
    /\ Find(url, ":") > 0
    /\ \A k \in 1..Find(url, ":") : url[k] \in SchemeChars

\* the first of "/", "?", "#" at or after the netloc's start, else the end
NetlocEnd(url) ==
    IF \E i \in 3..Len(url) : url[i] \in {"/", "?", "#"}
    THEN (CHOOSE i \in 3..Len(url) :
              /\ url[i] \in {"/", "?", "#"}
              /\ \A j \in 3..(i - 1) : url[j] \notin {"/", "?", "#"}) - 1
    ELSE Len(url)

\* the part of a string before its first c (the whole string without c)
Before(s, c) == IF Find(s, c) = -1 THEN s ELSE Take(s, Find(s, c))

\* _splitparams(url)[0]
SplitParamsUrl(url) ==
    LET start == IF Find(url, "/") # -1 THEN RFind(url, "/") ELSE 0
        i == FindFrom(url, ";", start)
    IN IF i < 0 THEN url ELSE Take(url, i)

\* urlparse(root): the scheme, netloc and path of the result
urlparse(root) ==
    LET scheme == IF HasScheme(root) THEN Lower(Take(root, Find(root, ":"))) ELSE <<>>
        rest == IF HasScheme(root) THEN Drop(root, Find(root, ":") + 1) ELSE root
        hasNetloc == Take(rest, 2) = <<"/", "/">>
        netloc == IF hasNetloc THEN SubSeq(rest, 3, NetlocEnd(rest)) ELSE <<>>
        url == IF hasNetloc THEN Drop(rest, NetlocEnd(rest)) ELSE rest
        noFragment == Before(url, "#")
        noQuery == Before(noFragment, "?")
        path == IF ";" \in Range(noQuery) THEN SplitParamsUrl(noQuery) ELSE noQuery
    IN [scheme |-> scheme, netloc |-> netloc, path |-> path]

\* urlunparse((scheme, netloc, path, '', '', '')) for a scheme of http or https
urlunparse(scheme, netloc, path) ==
    LET url == IF netloc # <<>> \/ (scheme # <<>> /\ Take(path, 2) # <<"/", "/">>)
               THEN <<"/", "/">> \o netloc
                      \o (IF path # <<>> /\ Take(path, 1) # <<"/">>
                          THEN <<"/">> \o path ELSE path)
               ELSE path
    IN IF scheme # <<>> THEN scheme \o <<":">> \o url ELSE url

HTTP == <<"h","t","t","p">>
HTTPS == <<"h","t","t","p","s">>

\* (mutant) the assertion compiled away
ValidScheme_NoAssert(root) == TRUE

\* the assertion of _validate_root
ValidScheme(root) == urlparse(root).scheme \in {HTTP, HTTPS}

\* Connection._validate_root(root), for a root that passes the assertion
validate_root(root) ==
    LET parsed == urlparse(root)
        path == IF EndsWith(parsed.path, <<"/">>)
                THEN Take(parsed.path, Len(parsed.path) - 1)
                ELSE parsed.path
    IN urlunparse(parsed.scheme, parsed.netloc, path)

-----------------------------------------------------------------------------
(* The Connection.                                                         *)

NoConnection == [t |-> "NoConnection"]

\* what a caller may pass as `client`: nothing (None) or a client of its own
SuppliedClient == [t |-> "client", v |-> "supplied"]
\* the n-th object returned by DEFAULT_CLIENT_CLASS(): each call gives a new one
DefaultClient(n) == [t |-> "client", v |-> "DEFAULT_CLIENT_CLASS", id |-> n]
ClientArgs == {PyNone, SuppliedClient}

\* Connection.PATH_SUFFIX, and the value of subclasses that override it
PATH_SUFFIX == <<"/">>

\* Connection(root, client) on a class whose PATH_SUFFIX is suffix:
\* the new object, or the AssertionError of _validate_root
Raise(exc) == [t |-> "raise", v |-> exc]
Connection_init(root, client, suffix) ==
    IF ~ValidScheme(root)
    THEN Raise("AssertionError")
    ELSE [t |-> "Connection", client |-> client, root |-> validate_root(root),
          PATH_SUFFIX |-> suffix]

\* roots given to the constructor: a scheme candidate followed by a tail
RootHeads == { <<"h","t","t","p">>, <<"h","t","t","p","s">>,
               <<"H","T","T","P","S">>, <<"H","t","t","p">>,
               <<"f","t","p">>, <<"f","o","o">>, <<>>,
               <<"h","t","t","p",":","/","/","h">>,
               <<"H","T","T","P","S",":","/","/","h">> }
RootAlphabet == {":", "/", "a", "?", "#"}
RootTails == UNION { [1..n -> RootAlphabet] : n \in 0..MaxRootTail }
Roots == { h \o t : h \in RootHeads, t \in RootTails }

NoOp == [op |-> "none", target |-> 0, args |-> <<>>, kwargs |-> {}, result |-> PyNone]

InitRoot ==
    /\ conn = NoConnection
    /\ heap = <<>>
    /\ last = NoOp
    /\ inflight = {}
    /\ hist = <<>>
    /\ instances = 0

\* the caller builds its Connection (one attempt: a construction reads nothing
\* of an earlier one)
NewConnection ==
    /\ conn = NoConnection
    /\ last = NoOp
    /\ \E root \in Roots, client \in ClientArgs :
         LET made == Connection_init(root, client, PATH_SUFFIX)
         IN /\ last' = [op |-> "Connection", target |-> 0, args |-> <<PyStr(root)>>,
                        kwargs |-> {}, result |-> made]
            /\ conn' = IF made.t = "Connection" THEN made ELSE conn
    /\ UNCHANGED <<heap, inflight, hist, instances>>

\* the caller builds a Connection again from the root of the one it holds
RebuildConnection ==
    /\ conn # NoConnection
    /\ last.args # <<PyStr(conn.root)>>
    /\ LET made == Connection_init(conn.root, conn.client, conn.PATH_SUFFIX)
       IN /\ last' = [op |-> "Connection", target |-> 0, args |-> <<PyStr(conn.root)>>,
                      kwargs |-> {}, result |-> made]
          /\ conn' = IF made.t = "Connection" THEN made ELSE conn
    /\ UNCHANGED <<heap, inflight, hist, instances>>

NextRoot == NewConnection \/ RebuildConnection

SpecRoot == InitRoot /\ [][NextRoot]_vars

-----------------------------------------------------------------------------
(* Callable and Executable.                                                *)

S_GET == <<"G","E","T">>
S_HEAD == <<"H","E","A","D">>
S_POST == <<"P","O","S","T">>
S_PUT == <<"P","U","T">>
S_DELETE == <<"D","E","L","E","T","E">>
S_PATCH == <<"P","A","T","C","H">>
S_OPTIONS == <<"O","P","T","I","O","N","S">>

\* hdrs.METH_ALL - {hdrs.METH_CONNECT, hdrs.METH_TRACE}
HTTP_METHODS == {S_GET, S_HEAD, S_POST, S_PUT, S_DELETE, S_PATCH, S_OPTIONS}

\* references: Ref(0) is the Connection, Ref(i) the i-th object of heap
Ref(i) == [t |-> "ref", v |-> i]
ConnRef == Ref(0)

\* (mutant) the parts are stringified and not split
Callable_init_NoSplit(connection, parts) ==
    [t |-> "Callable", connection |-> connection,
     parts |-> [i \in DOMAIN parts |-> Str(parts[i])]]

\* Callable.__init__(connection, *parts)
Callable_init(connection, parts) ==
    [t |-> "Callable", connection |-> connection,
     parts |-> Sum([i \in DOMAIN parts |-> Split(Str(parts[i]), "/")])]

\* Executable.__init__(connection, method, path)
Executable_init(connection, method, path) ==
    [t |-> "Executable", connection |-> connection, method |-> method, path |-> path]

\* (mutant) the parts joined, without the leading "/"
Callable_path_NoLead(self) == Join(self.parts, <<"/">>)

\* Callable.path
Callable_path(self) == <<"/">> \o Join(self.parts, <<"/">>)

\* *self.parts: the saved parts, given again as arguments
Unpack(parts) == [i \in DOMAIN parts |-> PyStr(parts[i])]

\* Connection.__getattr__(attr)
Connection_getattr(attr) ==
    IF Upper(attr) \in HTTP_METHODS
    THEN Executable_init(ConnRef, Upper(attr), PyNone)
    ELSE Callable_init(ConnRef, <<PyStr(attr)>>)

\* (mutant) a call dispatches on a method name as attribute access does
Connection_call_Dispatch(args) ==
    IF Len(args) = 1 /\ Upper(Str(args[1])) \in HTTP_METHODS
    THEN Executable_init(ConnRef, Upper(Str(args[1])), PyNone)
    ELSE Callable_init(ConnRef, args)

\* Connection.__call__(*args)
Connection_call(args) == Callable_init(ConnRef, args)

\* (mutant) a call without arguments copies the object
Callable_call_AlwaysNew(i, self, args) ==
    Callable_init(self.connection, Unpack(self.parts) \o args)

\* Callable.__call__(*args) on the object at heap index i: a new object, or
\* the reference of self
Callable_call(i, self, args) ==
    IF args # <<>>
    THEN Callable_init(self.connection, Unpack(self.parts) \o args)
    ELSE Ref(i)

\* (mutant) the method name is looked up as written
Callable_getattr_CaseSensitive(self, attr) ==
    IF attr \in HTTP_METHODS
    THEN Executable_init(self.connection, attr, PyStr(Callable_path(self)))
    ELSE Callable_init(self.connection, Unpack(self.parts) \o <<PyStr(attr)>>)

\* Callable.__getattr__(attr)
Callable_getattr(self, attr) ==
    IF Upper(attr) \in HTTP_METHODS
    THEN Executable_init(self.connection, Upper(attr), PyStr(Callable_path(self)))
    ELSE Callable_init(self.connection, Unpack(self.parts) \o <<PyStr(attr)>>)

\* Callable.__str__, for the connection that self.connection names
Callable_str(self, connection) ==
    <<"C","a","l","l","a","b","l","e"," ","(">>
        \o Callable_path(self) \o connection.PATH_SUFFIX \o <<")">>

\* Executable.__str__, for the connection that self.connection names
Executable_str(self, connection) ==
    LET path == IF Truthy(self.path) THEN self.path.v ELSE <<"/">>
    IN <<"E","x","e","c","u","t","a","b","l","e"," ","(">>
           \o self.method \o <<" ">> \o path
           \o (IF EndsWith(path, connection.PATH_SUFFIX)
               THEN <<>> ELSE connection.PATH_SUFFIX)
           \o <<")">>

-----------------------------------------------------------------------------
(* The inputs of the chain operations.                                     *)

S_client == <<"c","l","i","e","n","t">>
S_root == <<"r","o","o","t">>
S_request == <<"r","e","q","u","e","s","t">>
S_connection == <<"c","o","n","n","e","c","t","i","o","n">>
S_parts == <<"p","a","r","t","s">>
S_path == <<"p","a","t","h">>
S_PATH_SUFFIX == <<"P","A","T","H","_","S","U","F","F","I","X">>
S_DEFAULT_CLIENT_CLASS ==
    <<"D","E","F","A","U","L","T","_","C","L","I","E","N","T","_","C","L","A","S","S">>
S_validate_root == <<"_","v","a","l","i","d","a","t","e","_","r","o","o","t">>

\* attribute names that are found on the object itself or on its class, before
\* __getattr__ is tried: the slots, the class attributes and the methods
ConnectionAttrs ==
    {S_client, S_root, S_request, S_PATH_SUFFIX, S_DEFAULT_CLIENT_CLASS, S_validate_root}
CallableAttrs == {S_connection, S_parts, S_path}

\* the spellings tried for each method name: upper, lower, capitalized
MethodSpellings ==
    { <<<<"G","E","T">>, <<"g","e","t">>, <<"G","e","t">>>>,
      <<<<"H","E","A","D">>, <<"h","e","a","d">>, <<"H","e","a","d">>>>,
      <<<<"P","O","S","T">>, <<"p","o","s","t">>, <<"P","o","s","t">>>>,
      <<<<"P","U","T">>, <<"p","u","t">>, <<"P","u","t">>>>,
      <<<<"D","E","L","E","T","E">>, <<"d","e","l","e","t","e">>, <<"D","e","l","e","t","e">>>>,
      <<<<"P","A","T","C","H">>, <<"p","a","t","c","h">>, <<"P","a","t","c","h">>>>,
      <<<<"O","P","T","I","O","N","S">>, <<"o","p","t","i","o","n","s">>, <<"O","p","t","i","o","n","s">>>> }
MethodNames == UNION { {sp[1], sp[2], sp[3]} : sp \in MethodSpellings }
AttrNames == {<<"a">>} \cup MethodNames \cup ConnectionAttrs

\* argument lists of a call on a Connection or on a Callable
CallArgs ==
    { <<>>,
      <<PyStr(<<"a">>)>>,
      <<PyStr(<<>>)>>,
      <<PyStr(<<"a","/","b">>)>>,
      <<PyStr(<<"/","a">>)>>,
      <<PyStr(<<"a","/">>)>>,
      <<PyStr(<<"a">>), PyInt(12)>>,
      <<PyStr(<<"a","/","b">>), PyStr(<<"c">>)>>,
      <<PyStr(<<"g","e","t">>)>>,
      <<PyStr(S_GET)>>,
      <<PyStr(<<"P","o","s","t">>)>>,
      <<PyStr(S_client)>>,
      <<PyStr(S_root)>>,
      <<PyStr(S_request)>>,
      <<PyStr(S_parts)>> }

-----------------------------------------------------------------------------
(* The chain operations.                                                   *)

\* (mutant) an object made from another one takes its place
Allocate_InPlace(op, target, args, obj, chain) ==
    /\ Len(heap) < MaxObjs
    /\ heap' = IF target = 0 THEN Append(heap, obj) ELSE [heap EXCEPT ![target] = obj]
    /\ hist' = IF target = 0 THEN Append(hist, chain) ELSE [hist EXCEPT ![target] = chain]
    /\ last' = [op |-> op, target |-> target, args |-> args, kwargs |-> {},
                result |-> Ref(IF target = 0 THEN Len(heap) + 1 ELSE target)]

\* the returned object is new: it is kept, with the raw arguments of its chain
Allocate(op, target, args, obj, chain) ==
    /\ Len(heap) < MaxObjs
    /\ heap' = Append(heap, obj)
    /\ hist' = Append(hist, chain)
    /\ last' = [op |-> op, target |-> target, args |-> args, kwargs |-> {},
                result |-> Ref(Len(heap) + 1)]

\* the operation returns a value and creates nothing
Return(op, target, args, value) ==
    /\ last' = [op |-> op, target |-> target, args |-> args, kwargs |-> {},
                result |-> value]
    /\ UNCHANGED <<heap, hist>>

\* connection.<attr>
ConnectionAttribute(names) ==
    \E attr \in names :
        /\ IF attr \in ConnectionAttrs
           THEN Return("Connection.attribute", 0, <<PyStr(attr)>>,
                       CASE attr = S_client -> conn.client
                         [] attr = S_root -> PyStr(conn.root)
                         [] attr = S_PATH_SUFFIX -> PyStr(conn.PATH_SUFFIX)
                         [] attr = S_DEFAULT_CLIENT_CLASS ->
                              [t |-> "class", v |-> "ClientSession"]
                         [] attr = S_validate_root ->
                              [t |-> "function", v |-> "Connection._validate_root"]
                         [] OTHER -> [t |-> "method", v |-> "Connection.request"])
           ELSE Allocate("Connection.__getattr__", 0, <<PyStr(attr)>>,
                         Connection_getattr(attr), <<PyStr(attr)>>)
        /\ UNCHANGED <<conn, inflight, instances>>

\* connection(*args)
ConnectionCall(argLists) ==
    \E args \in argLists :
        /\ Allocate("Connection.__call__", 0, args, Connection_call(args), args)
        /\ UNCHANGED <<conn, inflight, instances>>

\* callable(*args)
CallableCall(argLists) ==
    \E i \in DOMAIN heap, args \in argLists :
        /\ heap[i].t = "Callable"
        /\ LET r == Callable_call(i, heap[i], args)
           IN IF r.t = "ref"
              THEN Return("Callable.__call__", i, args, r)
              ELSE Allocate("Callable.__call__", i, args, r, hist[i] \o args)
        /\ UNCHANGED <<conn, inflight, instances>>

\* callable.<attr>, for a name that is not found on the object itself
CallableAttribute(names) ==
    \E i \in DOMAIN heap, attr \in names \ (ConnectionAttrs \cup CallableAttrs) :
        /\ heap[i].t = "Callable"
        /\ Allocate("Callable.__getattr__", i, <<PyStr(attr)>>,
                    Callable_getattr(heap[i], attr), hist[i] \o <<PyStr(attr)>>)
        /\ UNCHANGED <<conn, inflight, instances>>

\* the root of the examples and tests: 'https://httpbin.org/', shortened
DUMMY_ROOT == <<"h","t","t","p","s",":","/","/","h","/">>

\* connection = Connection(DUMMY_ROOT)
Init ==
    /\ conn = Connection_init(DUMMY_ROOT, PyNone, PATH_SUFFIX)
    /\ heap = <<>>
    /\ hist = <<>>
    /\ last = NoOp
    /\ inflight = {}
    /\ instances = 0

\* building paths
Next ==
    \/ ConnectionAttribute(AttrNames)
    \/ ConnectionCall(CallArgs)
    \/ CallableCall(CallArgs)
    \/ CallableAttribute(AttrNames)

Spec == Init /\ [][Next]_vars

-----------------------------------------------------------------------------
(* Requests: Executable.__call__ and Connection.request.                   *)

\* utils.NotProvided, the default of the optional parameters
NotProvided == [t |-> "NotProvided"]

\* DataModes
DataModes_JSON == PyEnum("JSON")
DataModes_FORM == PyEnum("FORM")

\* json.dumps(data); a dict is a sequence of <<key, value>> items
RECURSIVE json_dumps(_)
json_dumps(x) ==
    CASE x.t = "None" -> <<"n","u","l","l">>
      [] x.t = "str" -> <<"\"">> \o x.v \o <<"\"">>
      [] x.t = "int" -> Str(x)
      [] x.t = "dict" ->
           <<"{">>
             \o Join([k \in DOMAIN x.v |->
                        <<"\"">> \o x.v[k][1] \o <<"\"", ":", " ">>
                          \o json_dumps(x.v[k][2])],
                     <<",", " ">>)
             \o <<"}">>
      [] OTHER -> <<"?">>

\* keyword arguments: a set of entries, one per key
Kw(k, v) == [k |-> k, v |-> v]
Keys(kwargs) == {e.k : e \in kwargs}
Get(kwargs, k) == (CHOOSE e \in kwargs : e.k = k).v

\* (mutant) a first positional argument goes before the path keyword
Executable_resolve_ArgsFirst(self, args, kwargs) ==
    LET fromArgs == ~Truthy(self.path) /\ args # <<>>
        fromKw == ~Truthy(self.path) /\ args = <<>> /\ "path" \in Keys(kwargs)
        path == IF fromKw THEN Get(kwargs, "path")
                ELSE IF fromArgs THEN args[1] ELSE self.path
    IN [path |-> IF ~Truthy(path) THEN PyStr(<<"/">>) ELSE path,
        args |-> IF fromArgs THEN Tail(args) ELSE args,
        kwargs |-> IF fromKw THEN {e \in kwargs : e.k # "path"} ELSE kwargs]

\* Executable.__call__(*args, **kwargs), up to the call of connection.request:
\* the path, and the arguments passed on
Executable_resolve(self, args, kwargs) ==
    LET fromKw == ~Truthy(self.path) /\ "path" \in Keys(kwargs)
        fromArgs == ~Truthy(self.path) /\ "path" \notin Keys(kwargs) /\ args # <<>>
        path == IF fromKw THEN Get(kwargs, "path")
                ELSE IF fromArgs THEN args[1] ELSE self.path
    IN [path |-> IF ~Truthy(path) THEN PyStr(<<"/">>) ELSE path,
        args |-> IF fromArgs THEN Tail(args) ELSE args,
        kwargs |-> IF fromKw THEN {e \in kwargs : e.k # "path"} ELSE kwargs]

\* the parameters of Connection.request after method and path, in order
ParamNames == <<"data", "data_mode", "headers", "path_suffix">>

\* Python refuses the call: too many positional arguments, an unknown keyword,
\* or a parameter given twice (method and path are always given positionally)
BindError(args, kwargs) ==
    \/ Len(args) > Len(ParamNames)
    \/ \E k \in Keys(kwargs) : k \notin Range(ParamNames)
    \/ \E i \in DOMAIN args : i <= Len(ParamNames) /\ ParamNames[i] \in Keys(kwargs)

\* the value bound to the i-th parameter
Bind(i, args, kwargs, default) ==
    IF i <= Len(args) THEN args[i]
    ELSE IF ParamNames[i] \in Keys(kwargs) THEN Get(kwargs, ParamNames[i])
    ELSE default

\* the parameters of Connection.request for a call that Python accepts
Bound(method, path, args, kwargs) ==
    [method |-> method, path |-> path,
     data |-> Bind(1, args, kwargs, NotProvided),
     data_mode |-> Bind(2, args, kwargs, DataModes_FORM),
     headers |-> Bind(3, args, kwargs, NotProvided),
     path_suffix |-> Bind(4, args, kwargs, NotProvided)]

\* (mutant) the suffix is appended whatever the end of the path
request_path_AlwaysSuffix(self, path, path_suffix) ==
    LET slashed == IF ~StartsWith(path, <<"/">>) THEN <<"/">> \o path ELSE path
        suffix == IF path_suffix = NotProvided THEN self.PATH_SUFFIX ELSE Str(path_suffix)
    IN slashed \o suffix

\* Connection.request: the path of the url
request_path(self, path, path_suffix) ==
    LET slashed == IF ~StartsWith(path, <<"/">>) THEN <<"/">> \o path ELSE path
        suffix == IF path_suffix = NotProvided THEN self.PATH_SUFFIX ELSE Str(path_suffix)
    IN IF suffix # <<>> /\ ~EndsWith(slashed, suffix) THEN slashed \o suffix ELSE slashed

\* (mutant) None is taken for an omitted argument
request_kwargs_NoneOmitted(data, data_mode, headers) ==
    (IF data \in {NotProvided, PyNone} THEN {}
     ELSE IF data_mode = DataModes_JSON
          THEN {Kw("data", PyStr(json_dumps(data)))}
          ELSE {Kw("data", data)})
    \cup (IF headers \in {NotProvided, PyNone} THEN {} ELSE {Kw("headers", headers)})

\* Connection.request: the keyword arguments of the transport call
request_kwargs(data, data_mode, headers) ==
    (IF data = NotProvided THEN {}
     ELSE IF data_mode = DataModes_JSON
          THEN {Kw("data", PyStr(json_dumps(data)))}
          ELSE {Kw("data", data)})
    \cup (IF headers = NotProvided THEN {} ELSE {Kw("headers", headers)})

\* (mutant) the client is created without looking at the one already there
Connection_request_AlwaysCreate(self, b, fresh) ==
    IF b.path.t # "str"
    THEN [client |-> fresh, created |-> TRUE, raised |-> "AttributeError"]
    ELSE [client |-> fresh, created |-> TRUE, raised |-> "",
          member |-> Lower(b.method),
          url |-> self.root \o request_path(self, b.path.v, b.path_suffix),
          kwargs |-> request_kwargs(b.data, b.data_mode, b.headers)]

\* Connection.request, up to the call of the transport: the client after the
\* lazy creation, and the transport call or what was raised before it
\* fresh is what DEFAULT_CLIENT_CLASS() returns if it is called
Connection_request(self, b, fresh) ==
    LET create == self.client = PyNone
        client == IF create THEN fresh ELSE self.client
    IN IF b.path.t # "str"
       THEN [client |-> client, created |-> create, raised |-> "AttributeError"]
       ELSE [client |-> client, created |-> create, raised |-> "",
             member |-> Lower(b.method),
             url |-> self.root \o request_path(self, b.path.v, b.path_suffix),
             kwargs |-> request_kwargs(b.data, b.data_mode, b.headers)]

\* what the transport answers
Responses == {[t |-> "response", v |-> "200 OK"]}
TransportErrors == {"ClientConnectionError"}

\* the caller invokes request(method, path, *args, **kwargs) on the Connection,
\* directly or through an Executable; it runs up to the await of the transport
Request(op, target, cargs, ckwargs, method, path, args, kwargs) ==
    /\ Cardinality(inflight) < MaxInflight
    /\ IF BindError(args, kwargs)
       THEN /\ last' = [op |-> op, target |-> target, args |-> cargs,
                        kwargs |-> ckwargs, result |-> Raise("TypeError")]
            /\ UNCHANGED <<conn, inflight, instances>>
       ELSE LET b == Bound(method, path, args, kwargs)
                q == Connection_request(conn, b, DefaultClient(instances + 1))
            IN /\ q.created => instances < MaxInstances
               /\ instances' = IF q.created THEN instances + 1 ELSE instances
               /\ conn' = [conn EXCEPT !.client = q.client]
               /\ IF q.raised # ""
                  THEN /\ last' = [op |-> op, target |-> target, args |-> cargs,
                                   kwargs |-> ckwargs, result |-> Raise(q.raised)]
                       /\ UNCHANGED inflight
                  ELSE /\ last' = [op |-> op, target |-> target, args |-> cargs,
                                   kwargs |-> ckwargs, result |-> [t |-> "pending"]]
                       /\ inflight' = inflight \cup
                            {[op |-> op, target |-> target, args |-> cargs,
                              kwargs |-> ckwargs, request |-> b, client |-> q.client,
                              member |-> q.member, url |-> q.url, sent |-> q.kwargs]}
    /\ UNCHANGED <<heap, hist>>

\* executable(*args, **kwargs)
ExecutableCall(inputs) ==
    \E i \in DOMAIN heap, inp \in inputs :
        /\ heap[i].t = "Executable"
        /\ LET r == Executable_resolve(heap[i], inp.args, inp.kwargs)
           IN Request("Executable.__call__", i, inp.args, inp.kwargs,
                      heap[i].method, r.path, r.args, r.kwargs)

\* Executable(connection, method, path), built by the caller itself
ExecutableNew(methods, paths) ==
    \E method \in methods, path \in paths :
        /\ Allocate("Executable", 0, <<PyStr(method), path>>,
                    Executable_init(ConnRef, method, path), <<>>)
        /\ UNCHANGED <<conn, inflight, instances>>

\* connection.request(method, path, *args, **kwargs)
ConnectionRequest(inputs) ==
    \E inp \in inputs :
        Request("Connection.request", 0, <<PyStr(inp.method), inp.path>> \o inp.args,
                inp.kwargs, inp.method, inp.path, inp.args, inp.kwargs)

\* the transport answers: the awaiting call returns the response
TransportReturns ==
    \E c \in inflight, response \in Responses :
        /\ inflight' = inflight \ {c}
        /\ last' = [op |-> c.op, target |-> c.target, args |-> c.args,
                    kwargs |-> c.kwargs, result |-> response]
        /\ UNCHANGED <<conn, heap, hist, instances>>

\* (mutant) the failure is wrapped and the client of the connection dropped
TransportRaises_Reset ==
    \E c \in inflight, error \in TransportErrors :
        /\ inflight' = inflight \ {c}
        /\ conn' = [conn EXCEPT !.client = PyNone]
        /\ last' = [op |-> c.op, target |-> c.target, args |-> c.args,
                    kwargs |-> c.kwargs, result |-> Raise("ConnectionError")]
        /\ UNCHANGED <<heap, hist, instances>>

\* the transport fails: the awaiting call raises the transport's error
TransportRaises ==
    \E c \in inflight, error \in TransportErrors :
        /\ inflight' = inflight \ {c}
        /\ last' = [op |-> c.op, target |-> c.target, args |-> c.args,
                    kwargs |-> c.kwargs, result |-> Raise(error)]
        /\ UNCHANGED <<conn, heap, hist, instances>>

-----------------------------------------------------------------------------
(* The inputs of the requests.                                             *)

D_FooBar == PyDict(<< <<<<"f","o","o">>, PyStr(<<"b","a","r">>)>> >>)
H_XFoo == PyDict(<< <<<<"X","-","F","o","o">>, PyStr(<<"B","a","r">>)>> >>)
P_d == PyStr(<<"d">>)
P_sds == PyStr(<<"/","d","/">>)

\* arguments of executable(...)
ExecutableInputs ==
    { [args |-> <<>>, kwargs |-> {}],
      [args |-> <<>>, kwargs |-> {Kw("path", P_sds)}],
      [args |-> <<P_sds>>, kwargs |-> {Kw("headers", H_XFoo)}],
      [args |-> <<P_d>>, kwargs |-> {Kw("path", PyStr(<<"e">>))}],
      [args |-> <<>>, kwargs |-> {Kw("path", PyStr(<<>>))}],
      [args |-> <<P_d>>, kwargs |-> {Kw("path", PyNone)}],
      [args |-> <<PyStr(<<>>), D_FooBar>>, kwargs |-> {}],
      [args |-> <<P_d, D_FooBar, DataModes_JSON>>, kwargs |-> {Kw("headers", H_XFoo)}],
      [args |-> <<>>, kwargs |-> {Kw("data", D_FooBar)}],
      [args |-> <<>>, kwargs |-> {Kw("data", D_FooBar), Kw("data_mode", DataModes_JSON)}],
      [args |-> <<>>, kwargs |-> {Kw("path_suffix", PyStr(<<>>))}],
      [args |-> <<D_FooBar>>, kwargs |-> {}],
      [args |-> <<P_d>>, kwargs |-> {Kw("timeout", PyInt(12))}] }

\* connection.request(method, path) and
\* connection.request(method, path, path_suffix=...)
Sfx(x) == {Kw("path_suffix", x)}
RequestPaths ==
    { [path |-> P_d, kwargs |-> {}],
      [path |-> PyStr(<<"/","d">>), kwargs |-> {}],
      [path |-> P_sds, kwargs |-> {}],
      [path |-> PyStr(<<>>), kwargs |-> {}],
      [path |-> PyStr(<<"/">>), kwargs |-> {}],
      [path |-> PyStr(<<"d","x">>), kwargs |-> {}],
      [path |-> PyStr(<<"x">>), kwargs |-> {}],
      [path |-> P_d, kwargs |-> Sfx(PyStr(<<>>))],
      [path |-> P_sds, kwargs |-> Sfx(PyStr(<<>>))],
      [path |-> P_d, kwargs |-> Sfx(PyStr(<<"/">>))],
      [path |-> P_sds, kwargs |-> Sfx(PyStr(<<"/">>))],
      [path |-> P_d, kwargs |-> Sfx(PyStr(<<"x">>))],
      [path |-> PyStr(<<"x">>), kwargs |-> Sfx(PyStr(<<"x">>))],
      [path |-> P_d, kwargs |-> Sfx(PyStr(<<"d","/">>))],
      [path |-> P_sds, kwargs |-> Sfx(PyStr(<<"d","/">>))],
      [path |-> PyStr(<<>>), kwargs |-> Sfx(PyStr(<<".","j">>))],
      [path |-> P_d, kwargs |-> Sfx(PyNone)] }

\* data, data_mode and headers of connection.request(method, path, ...)
RequestBodies ==
    { [args |-> <<>>, kwargs |-> {Kw("data", D_FooBar)}],
      [args |-> <<>>, kwargs |-> {Kw("data", D_FooBar), Kw("data_mode", DataModes_JSON)}],
      [args |-> <<>>, kwargs |-> {Kw("data", PyNone)}],
      [args |-> <<>>, kwargs |-> {Kw("data", PyNone), Kw("data_mode", DataModes_JSON)}],
      [args |-> <<>>, kwargs |-> {Kw("data", PyStr(<<"a">>)), Kw("data_mode", PyNone)}],
      [args |-> <<PyStr(<<"a">>), DataModes_JSON, H_XFoo>>, kwargs |-> {}],
      [args |-> <<>>, kwargs |-> {Kw("headers", H_XFoo)}],
      [args |-> <<>>, kwargs |-> {Kw("headers", PyNone), Kw("data_mode", DataModes_JSON)}],
      [args |-> <<D_FooBar>>, kwargs |-> {Kw("data", D_FooBar)}] }

\* arguments of connection.request(...)
RequestInputs ==
    { [method |-> S_GET, path |-> p.path, args |-> <<>>, kwargs |-> p.kwargs] :
        p \in RequestPaths }
    \cup { [method |-> <<"p","o","s","t">>, path |-> P_d, args |-> b.args,
            kwargs |-> b.kwargs] : b \in RequestBodies }
    \cup { [method |-> S_GET, path |-> PyNone, args |-> <<>>, kwargs |-> {}] }

\* attribute names and call arguments used to build the plans of the requests
RequestAttrNames == { <<"g","e","t">>, <<"P","o","s","t">> }
RequestCallArgs == { <<>>, <<PyStr(<<"a","/">>)>> }

\* the connections of the tests: Connection(DUMMY_ROOT), a subclass without
\* suffix given a client, and a subclass with another suffix
InitRequest ==
    /\ conn \in { Connection_init(DUMMY_ROOT, PyNone, PATH_SUFFIX),
                  Connection_init(DUMMY_ROOT, SuppliedClient, <<>>),
                  Connection_init(DUMMY_ROOT, SuppliedClient, <<"x">>) }
    /\ heap = <<>>
    /\ hist = <<>>
    /\ last = NoOp
    /\ inflight = {}
    /\ instances = 0

\* building paths and sending requests, one request after the other
NextRequest ==
    \/ ConnectionAttribute(RequestAttrNames)
    \/ ConnectionCall(RequestCallArgs)
    \/ CallableCall(RequestCallArgs)
    \/ CallableAttribute(RequestAttrNames)
    \/ ExecutableNew({S_GET}, {PyStr(<<>>)})
    \/ (inflight = {} /\ ExecutableCall(ExecutableInputs))
    \/ (inflight = {} /\ ConnectionRequest(RequestInputs))
    \/ TransportReturns
    \/ TransportRaises

SpecRequest == InitRequest /\ [][NextRequest]_vars

-----------------------------------------------------------------------------
(* Requests that overlap: a coroutine runs without interruption up to its  *)
(* await of the transport (the only await of Connection.request), so the   *)
(* requests of one event loop interleave at that point and nowhere else.   *)

\* arguments of the overlapping calls of executable(...)
OverlapExecutableInputs ==
    { [args |-> <<>>, kwargs |-> {}],
      [args |-> <<P_d>>, kwargs |-> {}],
      [args |-> <<PyNone>>, kwargs |-> {Kw("path", PyNone), Kw("timeout", PyInt(12))}] }

\* arguments of the overlapping calls of connection.request(...)
OverlapRequestInputs ==
    { [method |-> S_GET, path |-> P_d, args |-> <<>>, kwargs |-> {}],
      [method |-> <<"p","o","s","t">>, path |-> P_d, args |-> <<>>,
       kwargs |-> {Kw("data", D_FooBar)}],
      [method |-> S_GET, path |-> PyNone, args |-> <<>>, kwargs |-> {}] }

\* attribute names used to build the paths and plans of the overlapping calls
OverlapAttrNames == { <<"a">>, <<"g","e","t">>, <<"P","o","s","t">> }

\* PATH_SUFFIX of Connection and of the subclasses of the tests
OverlapSuffixes == { PATH_SUFFIX, <<>>, <<"x">> }

\* Connection(DUMMY_ROOT) and Connection(DUMMY_ROOT, client), also for the
\* subclasses with another suffix
InitOverlap ==
    /\ conn \in { Connection_init(DUMMY_ROOT, client, suffix) :
                     client \in ClientArgs, suffix \in OverlapSuffixes }
    /\ heap = <<>>
    /\ hist = <<>>
    /\ last = NoOp
    /\ inflight = {}
    /\ instances = 0

\* paths and plans are built and requests are started while others await the
\* transport
NextOverlap ==
    \/ ConnectionAttribute(OverlapAttrNames)
    \/ ConnectionCall(RequestCallArgs)
    \/ CallableCall(RequestCallArgs)
    \/ CallableAttribute(OverlapAttrNames)
    \/ ExecutableCall(OverlapExecutableInputs)
    \/ ConnectionRequest(OverlapRequestInputs)
    \/ TransportReturns
    \/ TransportRaises

SpecOverlap == InitOverlap /\ [][NextOverlap]_vars

-----------------------------------------------------------------------------
(* Claims about building paths (under Spec).                               *)

\* the object a reference names
Deref(r) == heap[r.v]

\* the accumulators among the objects
Callables == {i \in DOMAIN heap : heap[i].t = "Callable"}

\* "/" followed by the segments joined with "/", written segment by segment
SlashPath(segs) ==
    IF segs = <<>> THEN <<"/">>
    ELSE Sum([k \in DOMAIN segs |-> <<"/">> \o segs[k]])

\* the segments that the raw arguments of a chain contribute, in order
Contributed(args) == Sum([k \in DOMAIN args |-> Split(Str(args[k]), "/")])

\* C1: the segments of every accumulator are the in-order concatenation of the
\* segments contributed by the steps of its chain, and its path is "/" followed
\* by the segments joined with "/" ("/" alone without segments).
C1_SegmentsAndPath ==
    \A i \in Callables :
        /\ heap[i].parts = Contributed(hist[i])
        /\ Callable_path(heap[i]) = SlashPath(heap[i].parts)
        /\ heap[i].parts = <<>> => Callable_path(heap[i]) = <<"/">>
        /\ hist[i] = <<PyStr(<<"a">>), PyStr(<<"a">>), PyInt(12)>>
             => Callable_path(heap[i]) = <<"/","a","/","a","/","1","2">>

\* C1 witness: connection.a('a/b', 'c') has segments a, a, b, c
C1_Witness ==
    \E i \in Callables :
        /\ hist[i] = <<PyStr(<<"a">>), PyStr(<<"a","/","b">>), PyStr(<<"c">>)>>
        /\ heap[i].parts = << <<"a">>, <<"a">>, <<"b">>, <<"c">> >>
        /\ Callable_path(heap[i]) = <<"/","a","/","a","/","b","/","c">>

\* arguments containing "/", each with its "/"-separated pieces
SlashArgs ==
    { << <<"a","/","b">>, << <<"a">>, <<"b">> >> >>,
      << <<"/","a">>, << <<>>, <<"a">> >> >>,
      << <<"a","/">>, << <<"a">>, <<>> >> >>,
      << <<"/">>, << <<>>, <<>> >> >>,
      << <<"a","/","/","b">>, << <<"a">>, <<>>, <<"b">> >> >>,
      << <<"a","/","b","/","c">>, << <<"a">>, <<"b">>, <<"c">> >> >> }

\* acc(p1)(p2)...(pn)
RECURSIVE CallEach(_, _)
CallEach(acc, pieces) ==
    IF pieces = <<>> THEN acc
    ELSE CallEach(Callable_call(0, acc, <<PyStr(Head(pieces))>>), Tail(pieces))

\* C2: extending an accumulator with one argument containing "/" gives the same
\* segments and path as extending it with each "/"-separated piece in turn, and
\* an integer contributes its decimal form.
C2_SplitEquivalence ==
    \A i \in Callables :
        /\ \A sa \in SlashArgs :
             LET once == Callable_call(i, heap[i], <<PyStr(sa[1])>>)
                 each == CallEach(heap[i], sa[2])
             IN /\ once.parts = each.parts
                /\ once.parts = heap[i].parts \o sa[2]
                /\ Callable_path(once) = Callable_path(each)
        /\ Callable_call(i, heap[i], <<PyInt(12)>>).parts
             = heap[i].parts \o << <<"1","2">> >>
        /\ Callable_call(i, heap[i], <<PyInt(-3)>>).parts
             = heap[i].parts \o << <<"-","3">> >>

\* C2 witness: acc('a/b') was called on an accumulator with segments and
\* returned one with the segments a and b appended
C2_Witness ==
    /\ last.op = "Callable.__call__"
    /\ last.args = <<PyStr(<<"a","/","b">>)>>
    /\ heap[last.target].parts # <<>>
    /\ Deref(last.result).parts = heap[last.target].parts \o << <<"a">>, <<"b">> >>

C4_MethodAttribute ==
    (/\ last.op \in {"Connection.__getattr__", "Callable.__getattr__"}
     /\ last.args[1].v \in MethodNames)
        => /\ last.result.t = "ref"
           /\ Deref(last.result).t = "Executable"
           /\ \E sp \in MethodSpellings :
                /\ last.args[1].v \in {sp[1], sp[2], sp[3]}
                /\ Deref(last.result).method = sp[1]
           /\ Deref(last.result).connection = ConnRef
           /\ Deref(last.result).path =
                IF last.target = 0 THEN PyNone
                ELSE PyStr(SlashPath(heap[last.target].parts))

\* C4 witness: acc.Patch on an accumulator with two segments
C4_Witness ==
    /\ last.op = "Callable.__getattr__"
    /\ last.args = <<PyStr(<<"P","a","t","c","h">>)>>
    /\ Len(heap[last.target].parts) = 2
    /\ Deref(last.result).method = S_PATCH

\* the text of an argument as the caller wrote it
Literal(arg) ==
    CASE arg = PyInt(12) -> <<"1","2">>
      [] OTHER -> arg.v

\* C5: a call never ends a chain: whatever the arguments (method names and
\* reserved names included) the result is an accumulator, whose path ends with
\* "/" and the last argument as it was given.
C5_CallNeverTerminates ==
    last.op \in {"Connection.__call__", "Callable.__call__"}
        => /\ last.result.t = "ref"
           /\ Deref(last.result).t = "Callable"
           /\ last.args # <<>> =>
                LET arg == last.args[Len(last.args)]
                IN /\ EndsWith(Callable_path(Deref(last.result)),
                               <<"/">> \o Literal(arg))
                   /\ "/" \notin Range(Literal(arg)) =>
                        /\ Deref(last.result).parts # <<>>
                        /\ Deref(last.result).parts[Len(Deref(last.result).parts)]
                             = Literal(arg)

\* C5 witness: connection('client') is an accumulator with the segment client
C5_Witness ==
    /\ last.op = "Connection.__call__"
    /\ last.args = <<PyStr(S_client)>>
    /\ Deref(last.result).t = "Callable"
    /\ Deref(last.result).parts = <<S_client>>

\* the names that the documentation of Connection reserves
ReservedNames == {S_client, S_root, S_request}

\* C12: on a Connection, the attributes client, root and request give the field
\* or the method and create no accumulator; every other name that is not the
\* name of an HTTP method gives a new accumulator whose only segment is the name.
C12_ReservedNames ==
    last.op \in {"Connection.attribute", "Connection.__getattr__"} =>
        LET attr == last.args[1].v
        IN IF attr \in ReservedNames
           THEN last.result =
                  CASE attr = S_client -> conn.client
                    [] attr = S_root -> PyStr(conn.root)
                    [] OTHER -> [t |-> "method", v |-> "Connection.request"]
           ELSE Upper(attr) \notin HTTP_METHODS =>
                  /\ last.result = Ref(Len(heap))
                  /\ heap[Len(heap)].t = "Callable"
                  /\ heap[Len(heap)].parts = <<attr>>

\* s holds two slashes in a row
HasDoubleSlash(s) == \E k \in 1..(Len(s) - 1) : s[k] = "/" /\ s[k + 1] = "/"

\* the raw arguments of the chain are not empty and hold no "//": an empty
\* piece of theirs can only come from a slash at their start or at their end
OnlyOuterSlashes(args) ==
    \A k \in DOMAIN args : Str(args[k]) # <<>> /\ ~HasDoubleSlash(Str(args[k]))

\* C14: an accumulator whose arguments begin or end with "/" (as "/foo" and
\* "foo/") has no empty segment because of these slashes, and its path holds
\* no "//" because of them.
C14_NoEmptySegments ==
    \A i \in Callables :
        OnlyOuterSlashes(hist[i]) =>
            /\ \A k \in DOMAIN heap[i].parts : heap[i].parts[k] # <<>>
            /\ ~HasDoubleSlash(Callable_path(heap[i]))

-----------------------------------------------------------------------------
(* Claims about requests (under SpecRequest).                              *)

\* the suffix in force for a call: the path_suffix argument when one is given
\* (as text), the PATH_SUFFIX of the connection otherwise
EffectiveSuffix(c) ==
    CASE c.request.path_suffix = NotProvided -> conn.PATH_SUFFIX
      [] c.request.path_suffix = PyNone -> <<"N","o","n","e">>
      [] OTHER -> c.request.path_suffix.v

\* s ends with x, character by character
EndsIn(s, x) ==
    /\ Len(x) <= Len(s)
    /\ \A k \in 1..Len(x) : s[Len(s) - Len(x) + k] = x[k]

\* C8: the url given to the transport is root + p, where p begins with "/",
\* ends with the effective suffix, and is the given path with "/" put in front
\* only when it is missing and the suffix appended only when the path does not
\* end with it; the effective suffix is the path_suffix argument when provided
\* and the connection's own otherwise, and an empty suffix changes nothing.
C8_PathNormalization ==
    \A c \in inflight :
        LET given == c.request.path.v
            suffix == EffectiveSuffix(c)
            p == Drop(c.url, Len(conn.root))
            slashed == IF given # <<>> /\ given[1] = "/" THEN given ELSE <<"/">> \o given
        IN /\ c.url = conn.root \o p
           /\ p # <<>> /\ p[1] = "/"
           /\ EndsIn(p, suffix)
           /\ p \in {slashed, slashed \o suffix}
           /\ (p = slashed \o suffix /\ suffix # <<>>)
                => ~EndsIn(slashed, suffix)
           /\ (c.request.path = P_d /\ c.request.path_suffix = NotProvided
                 /\ conn.PATH_SUFFIX = <<"/">>) => p = <<"/","d","/">>

\* C8 witness: request('GET', 'd', path_suffix='') on a connection whose own
\* suffix is not empty reaches the transport with the path /d
C8_Witness ==
    \E c \in inflight :
        /\ c.op = "Connection.request"
        /\ c.request.path = P_d
        /\ c.request.path_suffix = PyStr(<<>>)
        /\ conn.PATH_SUFFIX # <<>>
        /\ c.url = conn.root \o <<"/","d">>

\* what Connection.request receives when called with (method, path, *a, **k)
Forwarded(c, a, k) ==
    /\ c.request.data =
         IF Len(a) >= 1 THEN a[1]
         ELSE IF \E e \in k : e.k = "data" THEN (CHOOSE e \in k : e.k = "data").v
         ELSE NotProvided
    /\ c.request.data_mode =
         IF Len(a) >= 2 THEN a[2]
         ELSE IF \E e \in k : e.k = "data_mode" THEN (CHOOSE e \in k : e.k = "data_mode").v
         ELSE DataModes_FORM
    /\ c.request.headers =
         IF Len(a) >= 3 THEN a[3]
         ELSE IF \E e \in k : e.k = "headers" THEN (CHOOSE e \in k : e.k = "headers").v
         ELSE NotProvided
    /\ c.request.path_suffix =
         IF Len(a) >= 4 THEN a[4]
         ELSE IF \E e \in k : e.k = "path_suffix"
              THEN (CHOOSE e \in k : e.k = "path_suffix").v
         ELSE NotProvided

\* the path of a call of an Executable, by the precedence of the claim;
\* IsSet(x) tells whether the plan's own path x counts as set and Used(x) is
\* what becomes of a path x taken from the arguments
Precedence(c, IsSet(_), Used(_)) ==
    LET plan == heap[c.target]
        pathKw == {e \in c.kwargs : e.k = "path"}
    IN /\ c.request.method = plan.method
       /\ IF IsSet(plan.path)
          THEN c.request.path = plan.path /\ Forwarded(c, c.args, c.kwargs)
          ELSE IF pathKw # {}
          THEN /\ c.request.path = Used((CHOOSE e \in pathKw : TRUE).v)
               /\ Forwarded(c, c.args, c.kwargs \ pathKw)
          ELSE IF c.args # <<>>
          THEN /\ c.request.path = Used(c.args[1])
               /\ Forwarded(c, Tail(c.args), c.kwargs)
          ELSE c.request.path = PyStr(<<"/">>) /\ Forwarded(c, c.args, c.kwargs)

\* a call of an Executable is refused with a TypeError only when the arguments
\* that the precedence passes on are ones that Connection.request refuses
Refusal(IsSet(_)) ==
    (last.op = "Executable.__call__" /\ last.result = Raise("TypeError")) =>
        LET plan == heap[last.target]
            pathKw == {e \in last.kwargs : e.k = "path"}
            fromArgs == ~IsSet(plan.path) /\ pathKw = {} /\ last.args # <<>>
        IN BindError(IF fromArgs THEN Tail(last.args) ELSE last.args,
                     IF IsSet(plan.path) THEN last.kwargs ELSE last.kwargs \ pathKw)

NotNone(x) == x # PyNone
NotEmpty(x) == x \notin {PyNone, PyStr(<<>>)}
AsGiven(x) == x
SlashIfEmpty(x) == IF x \in {PyNone, PyStr(<<>>)} THEN PyStr(<<"/">>) ELSE x

\* C9 as stated: the path is the plan's own when set, else the path keyword,
\* else the first positional argument, else "/", and Connection.request is
\* called with exactly that path and with the arguments left over.
C9_PathPrecedenceAsStated ==
    /\ \A c \in inflight :
          c.op = "Executable.__call__" => Precedence(c, NotNone, AsGiven)
    /\ Refusal(NotNone)

\* C9 amended: as stated, except that an empty path of the plan counts as not
\* set, and that an empty or null path taken from the path keyword or from the
\* first positional argument is replaced by "/"; Connection.request is called
\* with the plan's method, that path and the arguments left over.
C9_PathPrecedence ==
    /\ \A c \in inflight :
          c.op = "Executable.__call__" => Precedence(c, NotEmpty, SlashIfEmpty)
    /\ Refusal(NotEmpty)

\* C9 witness: a plan without path called with a positional argument and a path
\* keyword: the keyword is the path and the positional argument is passed on
C9_Witness ==
    \E c \in inflight :
        /\ c.op = "Executable.__call__"
        /\ heap[c.target].path = PyNone
        /\ c.args = <<P_d>>
        /\ c.kwargs = {Kw("path", PyStr(<<"e">>))}
        /\ c.request.path = PyStr(<<"e">>)
        /\ c.request.data = P_d

\* the JSON text of the data of the requests
JsonText(data) ==
    CASE data = PyNone -> <<"n","u","l","l">>
      [] data = PyStr(<<"a">>) -> <<"\"","a","\"">>
      [] data = D_FooBar ->
           <<"{","\"","f","o","o","\"",":"," ","\"","b","a","r","\"","}">>
      [] OTHER -> <<>>

\* C10: the transport gets a body exactly when data was provided (None is
\* provided, only NotProvided is not): the JSON text of data with the mode
\* JSON, data itself with any other mode; and it gets headers, as given,
\* exactly when headers was provided.
C10_BodyAndHeaders ==
    \A c \in inflight :
        LET body == {e \in c.sent : e.k = "data"}
            headers == {e \in c.sent : e.k = "headers"}
        IN /\ c.sent = body \cup headers
           /\ body # {} <=> c.request.data # NotProvided
           /\ body # {} =>
                body = {[k |-> "data",
                         v |-> IF c.request.data_mode = DataModes_JSON
                               THEN PyStr(JsonText(c.request.data))
                               ELSE c.request.data]}
           /\ headers # {} <=> c.request.headers # NotProvided
           /\ headers # {} => headers = {[k |-> "headers", v |-> c.request.headers]}

\* C10 witness: request('post', 'd', data=None, data_mode=JSON) sends the body
\* null
C10_Witness ==
    \E c \in inflight :
        /\ c.request.data = PyNone
        /\ c.request.data_mode = DataModes_JSON
        /\ c.sent = {[k |-> "data", v |-> PyStr(<<"n","u","l","l">>)]}

-----------------------------------------------------------------------------
(* Claims about the construction of a Connection (under SpecRoot).         *)

\* the scheme of a root, compared without case, is http or https
HttpRoot(r) ==
    \/ StartsWith(Lower(r), <<"h","t","t","p",":">>)
    \/ StartsWith(Lower(r), <<"h","t","t","p","s",":">>)

\* C6: validating an already validated root returns the same string:
\* validateRoot(validateRoot(r)) = validateRoot(r) for every accepted root r.
C6_RootValidationIdempotent ==
    (last.op = "Connection" /\ last.result.t = "Connection")
        => validate_root(last.result.root) = last.result.root

\* C7: Connection(root) raises, and gives the caller no Connection, exactly when
\* the scheme of root (without case) is not http or https; otherwise it succeeds
\* and the stored root begins with the scheme in lower case.
C7_ConstructionFailsFast ==
    last.op = "Connection" =>
        LET r == last.args[1].v
        IN IF HttpRoot(r)
           THEN /\ last.result.t = "Connection"
                /\ conn = last.result
                /\ \E n \in {4, 5} :
                     /\ r[n + 1] = ":"
                     /\ Take(conn.root, n + 1) = Lower(Take(r, n)) \o <<":">>
                /\ (r = <<"H","T","T","P","S",":","/","/","h","/","a","/">>
                      => conn.root = <<"h","t","t","p","s",":","/","/","h","/","a">>)
           ELSE /\ last.result = Raise("AssertionError")
                /\ conn = NoConnection

\* C7 witness: Connection("foo") has raised and the caller holds no Connection
C7_Witness ==
    /\ last.op = "Connection"
    /\ last.args = <<PyStr(<<"f","o","o">>)>>
    /\ last.result = Raise("AssertionError")
    /\ conn = NoConnection

-----------------------------------------------------------------------------
(* Claims about overlapping requests (under SpecOverlap).                  *)

RequestOps == {"Connection.request", "Executable.__call__"}

\* the step is a call that entered Connection.request
EntersRequest ==
    /\ last'.op \in RequestOps
    /\ last'.result \in {[t |-> "pending"], Raise("AttributeError")}

\* in every state: one client at most was created, and the requests awaiting
\* the transport were sent with the client of the connection
ClientState ==
    /\ instances <= 1
    /\ instances = 1 <=> conn.client = DefaultClient(1)
    /\ instances = 0 => conn.client \in {PyNone, SuppliedClient}
    /\ \A c \in inflight : c.client = conn.client

\* in every step: a client that is set stays, and a client that is missing is
\* created by the first call that enters Connection.request
ClientStep ==
    /\ conn.client # PyNone =>
          (conn'.client = conn.client /\ instances' = instances)
    /\ (conn.client = PyNone /\ EntersRequest) =>
          (conn'.client = DefaultClient(1) /\ instances' = 1)
    /\ (conn.client = PyNone /\ ~EntersRequest) => conn'.client = PyNone

\* C11: DEFAULT_CLIENT_CLASS() is called at most once; a connection built
\* without client calls it on the first request that enters Connection.request
\* and keeps the object; a client that is set is never replaced, whether it was
\* supplied or created; every request awaiting the transport was sent with the
\* client of the connection.
C11_ClientCreatedOnce == []ClientState /\ [][ClientStep]_vars

\* C11 witness: two requests await the transport on a connection built without
\* client, both sent with the one client that was created
C11_Witness ==
    /\ Cardinality(inflight) = 2
    /\ instances = 1
    /\ conn.client = DefaultClient(1)
    /\ \A c \in inflight : c.client = DefaultClient(1)

\* the objects that exist are the same after the step, field by field
ObjectsKept ==
    /\ Len(heap') >= Len(heap)
    /\ \A i \in DOMAIN heap : heap'[i] = heap[i]

\* an object made from an accumulator starts with the segments of that
\* accumulator, which is still what it was
PrefixShared ==
    (last.op \in {"Callable.__call__", "Callable.__getattr__"}
       /\ last.result.t = "ref" /\ last.result.v # last.target) =>
        LET made == heap[last.result.v]
            from == heap[last.target]
        IN IF made.t = "Callable"
           THEN /\ Len(made.parts) > Len(from.parts)
                /\ SubSeq(made.parts, 1, Len(from.parts)) = from.parts
           ELSE made.path = PyStr(Callable_path(from))

\* a plan with a path sends each of its requests with its method and its path
PlanReused ==
    \A c \in inflight :
        (c.op = "Executable.__call__" /\ NotEmpty(heap[c.target].path)) =>
            /\ c.request.method = heap[c.target].method
            /\ c.request.path = heap[c.target].path

\* C13: no operation changes an accumulator or a plan that exists: extension by
\* attribute or by call, access to a method name and invocation of a plan leave
\* every object as it was made; what is made from an accumulator starts with
\* its segments, and every request of a plan has the plan's method and path.
C13_NeverMutated == [](PrefixShared /\ PlanReused) /\ [][ObjectsKept]_vars

\* C13 witness: a plan made from an accumulator has two requests awaiting the
\* transport, and the accumulator and the plan are as they were made
C13_Witness ==
    /\ Len(heap) = 2
    /\ heap[1].t = "Callable" /\ heap[1].parts = <<<<"a">>>>
    /\ heap[2] = Executable_init(ConnRef, S_GET, PyStr(<<"/","a">>))
    /\ Cardinality({c \in inflight : c.target = 2 /\ c.op = "Executable.__call__"}) = 2

\* the transport calls started, and those answered, by the step
Sent == inflight' \ inflight
Answered == inflight \ inflight'

\* what the transport can raise, as the caller sees it when nothing wraps it
TransportFailures == {Raise(e) : e \in TransportErrors}

\* a step starts at most one transport call, on the member named by the lower
\* case method, and the call that started it is left pending on it; a step
\* that gives an answer gives the transport's response or error to the caller
\* of that very call, starts nothing again and leaves the connection alone
OneShot ==
    /\ Cardinality(Sent) + Cardinality(Answered) <= 1
    /\ \A c \in Sent :
          /\ c.member = Lower(c.request.method)
          /\ c.client = conn'.client
          /\ last' = [op |-> c.op, target |-> c.target, args |-> c.args,
                      kwargs |-> c.kwargs, result |-> [t |-> "pending"]]
    /\ \A c \in Answered :
          /\ last'.result \in Responses \cup TransportFailures
          /\ [last' EXCEPT !.result = PyNone] =
               [op |-> c.op, target |-> c.target, args |-> c.args,
                kwargs |-> c.kwargs, result |-> PyNone]
          /\ conn' = conn
    /\ (last'.result = [t |-> "pending"] /\ last' # last) =>
          \E c \in inflight' : c.op = last'.op /\ c.args = last'.args
                                 /\ c.kwargs = last'.kwargs /\ c.target = last'.target

\* after a failure of the transport the connection can be asked again
LaterAttempt ==
    last.result \in TransportFailures =>
        /\ conn.root = validate_root(DUMMY_ROOT)
        /\ conn.client # PyNone
        /\ ENABLED ConnectionRequest(OverlapRequestInputs)

\* C15: an invocation is one attempt: one call of the transport member named
\* by the lower-case method, no retry; the response is returned as it is, and a
\* failure of the transport reaches the caller as it is, with the root and the
\* client of the connection left as they were, so that a later invocation is
\* attempted as usual.
C15_OneShot == []LaterAttempt /\ [][OneShot]_vars

\* C15 witness: a request failed in the transport and its caller got that
\* error, while another request, sent with the same client, still awaits
C15_Witness ==
    /\ last.op = "Executable.__call__"
    /\ last.result = Raise("ClientConnectionError")
    /\ conn.client = DefaultClient(1)
    /\ \E c \in inflight : c.client = conn.client /\ c.member = <<"p","o","s","t">>

-----------------------------------------------------------------------------
(* Claims about the string forms (under SpecOverlap).                      *)

\* the path that a string form shows: the text between the parentheses, after
\* the method and the space when there is a method
ShownPath(str) ==
    LET inner == SubSeq(str, Find(str, "(") + 2, Len(str) - 1)
    IN IF Find(inner, " ") = -1 THEN inner ELSE Drop(inner, Find(inner, " ") + 1)

\* the plan A.m of an accumulator A
PlanOf(A, m) == Callable_getattr(A, m)

\* the path of the url that invoking the plan without argument gives the transport
SentPath(plan) ==
    request_path(conn, Executable_resolve(plan, <<>>, {}).path.v, NotProvided)

\* the requests awaiting the transport that come from a plan invoked without
\* argument went to the path that the string form of the plan shows
SentAsShown ==
    \A c \in inflight :
        (c.op = "Executable.__call__" /\ c.args = <<>> /\ c.kwargs = {}) =>
            c.url = conn.root \o ShownPath(Executable_str(heap[c.target], conn))

\* C16 as stated: for every accumulator A and method m, the string form of A,
\* the string form of A.m and the url of A.m() show the same path.
C16_StringFormsAsStated ==
    /\ SentAsShown
    /\ \A i \in Callables, m \in HTTP_METHODS :
          /\ ShownPath(Executable_str(PlanOf(heap[i], m), conn)) = SentPath(PlanOf(heap[i], m))
          /\ ShownPath(Callable_str(heap[i], conn)) = SentPath(PlanOf(heap[i], m))

====
